---- MODULE Spec2Model ----
(***************************************************************************)
(* Model of the TypeScript gazelle extension's resolver                    *)
(* (gazelle/resolve.go): Imports, Resolve, ResolveModuleDeps,              *)
(* targetListFromResults and convertDependencySetToExpr.                   *)
(*                                                                         *)
(* Strings are sequences of one-character strings, so that the path and    *)
(* label operations (extension stripping, Dir, TrimRight, label            *)
(* rendering, lexicographic order) are computed character by character.    *)
(***************************************************************************)
EXTENDS Integers, Sequences, FiniteSets, TLC

VARIABLES
    rules,              \* the workspace's rules, in the order the host visits them
    cfg,                \* the per-package configuration (cfgs[pkg], inherited from the root)
    EXPLAIN_DEPENDENCY, \* the process-wide explain target ("" when unset)
    index,              \* the host's RuleIndex: list of [Imp, Label]
    provided,           \* Imports' return value for every rule indexed so far
    nIndexed,           \* how many rules the host has indexed
    pc,                 \* "index", "idle", "loop", "returned", "exited", "done"
    from,               \* label of the target being resolved
    modules,            \* the target's import statements, in iteration order
    it,                 \* number of import statements the loop has consumed
    deps,               \* the dependency treeset, as its sorted value list
    added,              \* every deps.Add performed: [i, rule, dep], i the import's position
    hasFatalError,      \* the fatal flag of ResolveModuleDeps
    logged,             \* log lines written: [kind, target, src, path, rule, text]
    attrs,              \* the rule's attributes: [hasDeps, deps, tsconfig]
    exitStatus          \* -1 while the process runs, else its exit status

vars == <<rules, cfg, EXPLAIN_DEPENDENCY, index, provided, nIndexed, pc, from,
          modules, it, deps, added, hasFatalError, logged, attrs, exitStatus>>

-----------------------------------------------------------------------------
(* Bounds *)

MaxImports == 2

-----------------------------------------------------------------------------
(* Strings *)

\* The characters used, in ascending byte order (Go compares strings bytewise).
Alphabet == <<" ", ",", ".", "/", ":", "@", "_",
              "a", "b", "c", "d", "e", "f", "g", "h", "i", "j", "k", "l", "m",
              "n", "o", "p", "q", "r", "s", "t", "u", "v", "w", "x", "y", "z">>

CharCode(c) == CHOOSE k \in 1..Len(Alphabet) : Alphabet[k] = c

\* Go's string comparison s < t.
RECURSIVE StrLess(_, _)
StrLess(s, t) ==
    IF t = <<>> THEN FALSE
    ELSE IF s = <<>> THEN TRUE
    ELSE IF Head(s) = Head(t) THEN StrLess(Tail(s), Tail(t))
    ELSE CharCode(Head(s)) < CharCode(Head(t))

\* Position of the last occurrence of character c in s, 0 when absent.
LastIndex(s, c) ==
    IF \E k \in 1..Len(s) : s[k] = c
    THEN CHOOSE k \in 1..Len(s) : s[k] = c /\ \A j \in (k+1)..Len(s) : s[j] # c
    ELSE 0

\* Position of the first occurrence of character c in s, 0 when absent.
FirstIndex(s, c) ==
    IF \E k \in 1..Len(s) : s[k] = c
    THEN CHOOSE k \in 1..Len(s) : s[k] = c /\ \A j \in 1..(k-1) : s[j] # c
    ELSE 0

\* strings.TrimRight(s, cutset): drops every trailing character that is in cutset.
RECURSIVE TrimRight(_, _)
TrimRight(s, cutset) ==
    IF s # <<>> /\ \E k \in 1..Len(cutset) : cutset[k] = s[Len(s)]
    THEN TrimRight(SubSeq(s, 1, Len(s) - 1), cutset)
    ELSE s

\* strings.Join(list, sep)
RECURSIVE Join(_, _)
Join(list, sep) ==
    IF list = <<>> THEN <<>>
    ELSE IF Len(list) = 1 THEN list[1]
    ELSE list[1] \o sep \o Join(Tail(list), sep)

-----------------------------------------------------------------------------
(* Paths (path/filepath on clean, slash-separated, relative paths) *)

\* The components of a path: Split("a/b") = << <<"a">>, <<"b">> >>.
RECURSIVE Split(_)
Split(p) ==
    LET k == FirstIndex(p, "/") IN
    IF k = 0 THEN <<p>>
    ELSE <<SubSeq(p, 1, k - 1)>> \o Split(SubSeq(p, k + 1, Len(p)))

\* filepath.Base
PathBase(p) == IF p = <<>> THEN <<".">> ELSE SubSeq(p, LastIndex(p, "/") + 1, Len(p))

\* filepath.Dir
PathDir(p) ==
    LET k == LastIndex(p, "/") IN
    IF k = 0 THEN <<".">> ELSE SubSeq(p, 1, k - 1)

\* filepath.Ext: the suffix of the last component starting at its last dot.
PathExt(p) ==
    LET b == PathBase(p)
        k == LastIndex(b, ".")
    IN  IF k = 0 THEN <<>> ELSE SubSeq(b, k, Len(b))

\* filepath.Clean(filepath.Join(pkg, src)), for clean pkg and src.
JoinClean(pkg, src) == IF pkg = <<>> THEN src ELSE pkg \o <<"/">> \o src

\* Length of the longest common prefix of two component lists.
RECURSIVE CommonLen(_, _)
CommonLen(a, b) ==
    IF a # <<>> /\ b # <<>> /\ Head(a) = Head(b)
    THEN 1 + CommonLen(Tail(a), Tail(b))
    ELSE 0

\* filepath.Rel(base, targ) for relative paths: [err, path].
PathRel(base, targ) ==
    LET bc == IF base = <<>> \/ base = <<".">> THEN <<>> ELSE Split(base)
        tc == IF targ = <<>> \/ targ = <<".">> THEN <<>> ELSE Split(targ)
        n  == CommonLen(bc, tc)
        up == [k \in 1..(Len(bc) - n) |-> <<".", ".">>]
        rest == SubSeq(tc, n + 1, Len(tc))
    IN  IF n < Len(bc) /\ bc[n + 1] = <<".", ".">>
        THEN [err |-> TRUE, path |-> <<>>]
        ELSE IF up \o rest = <<>>
        THEN [err |-> FALSE, path |-> <<".">>]
        ELSE [err |-> FALSE, path |-> Join(up \o rest, <<"/">>)]

-----------------------------------------------------------------------------
(* Labels (bazel-gazelle label.Label) *)

Label(repo, pkg, name) == [Repo |-> repo, Pkg |-> pkg, Name |-> name, Relative |-> FALSE]

\* label.Label.Equal
LabelEqual(l, other) ==
    /\ l.Repo = other.Repo
    /\ l.Pkg = other.Pkg
    /\ l.Name = other.Name
    /\ l.Relative = other.Relative

\* label.Label.Rel
LabelRel(l, repo, pkg) ==
    IF l.Relative \/ l.Repo # repo THEN l
    ELSE IF l.Pkg = pkg
    THEN [Repo |-> <<>>, Pkg |-> <<>>, Name |-> l.Name, Relative |-> TRUE]
    ELSE [Repo |-> <<>>, Pkg |-> l.Pkg, Name |-> l.Name, Relative |-> FALSE]

\* label.Label.String
LabelString(l) ==
    IF l.Relative THEN <<":">> \o l.Name
    ELSE LET repo == IF l.Repo # <<>> /\ l.Repo # <<"@">>
                     THEN <<"@">> \o l.Repo ELSE l.Repo
         IN  IF PathBase(l.Pkg) = l.Name
             THEN repo \o <<"/", "/">> \o l.Pkg
             ELSE repo \o <<"/", "/">> \o l.Pkg \o <<":">> \o l.Name

-----------------------------------------------------------------------------
(* Source-file helpers of the extension *)

indexFileName == <<"i", "n", "d", "e", "x">>

SourceExts == { <<".", "t", "s">>, <<".", "t", "s", "x">>, <<".", "j", "s">> }

isSourceFileType(f) == PathExt(f) \in SourceExts

stripImportExtensions(f) ==
    IF ~isSourceFileType(f) THEN f
    ELSE SubSeq(f, 1, Len(f) - Len(PathExt(f)))

isIndexFile(f) ==
    isSourceFileType(f) /\ stripImportExtensions(PathBase(f)) = indexFileName

NodeBuiltins == { <<"f", "s">> }

isNodeImport(imp) == imp \in NodeBuiltins

TypesPrefix == <<"@", "t", "y", "p", "e", "s", "/">>

TypesNode == TypesPrefix \o <<"n", "o", "d", "e">>

-----------------------------------------------------------------------------
(* Imports: the import specifications a rule provides *)

\* The directory form under which an index file is also registered (line 62).
IndexDirSpec(spec) == TrimRight(PathDir(spec), indexFileName)

\* The body of the inner loop (lines 50-65) for one candidate spec of src.
SpecProvides(src, spec0) ==
    LET spec == stripImportExtensions(spec0) IN
    IF isIndexFile(src) THEN <<spec, IndexDirSpec(spec)>> ELSE <<spec>>

\* The candidate specs of one source file (lines 37-48).
SrcSpecs(pkg, baseDir, src0) ==
    LET src == JoinClean(pkg, src0)
        rel == PathRel(baseDir, src)
    IN  IF ~rel.err /\ rel.path # src THEN <<src, rel.path>> ELSE <<src>>

\* Everything one source file contributes (one iteration of lines 36-66).
SrcProvides(pkg, baseDir, src0) ==
    LET src   == JoinClean(pkg, src0)
        specs == SrcSpecs(pkg, baseDir, src0)
    IN  SpecProvides(src, specs[1])
            \o (IF Len(specs) = 2 THEN SpecProvides(src, specs[2]) ELSE <<>>)

RECURSIVE ImportsOf(_, _, _)
ImportsOf(pkg, baseDir, srcs) ==
    IF srcs = <<>> THEN <<>>
    ELSE SrcProvides(pkg, baseDir, Head(srcs)) \o ImportsOf(pkg, baseDir, Tail(srcs))

\* Imports(c, r, f): the provided import paths, in order (nil is <<>>).
Imports(c, r) == ImportsOf(r.Pkg, c.BaseDir, r.srcs)

-----------------------------------------------------------------------------
(* The dependency treeset (treeset.NewWithStringComparator) *)

\* TreeAdd that appends a new element at the end.
TreeAdd_Append(set, dep) ==
    IF \E k \in 1..Len(set) : set[k] = dep THEN set ELSE Append(set, dep)

\* Set.Add: inserts dep at its sorted position unless it is already there.
RECURSIVE TreeAdd(_, _)
TreeAdd(set, dep) ==
    IF set = <<>> THEN <<dep>>
    ELSE IF Head(set) = dep THEN set
    ELSE IF StrLess(dep, Head(set)) THEN <<dep>> \o set
    ELSE <<Head(set)>> \o TreeAdd(Tail(set), dep)

RECURSIVE TreeAddAll(_, _)
TreeAddAll(set, adds) ==
    IF adds = <<>> THEN set
    ELSE TreeAddAll(TreeAdd(set, Head(adds).dep), Tail(adds))

\* convertDependencySetToExpr: the list of string literals, in iteration order.
convertDependencySetToExpr(set) == [k \in 1..Len(set) |-> set[k]]

-----------------------------------------------------------------------------
(* Lookups used by ResolveModuleDeps *)

NotFound == [found |-> FALSE, value |-> <<>>]

Lookup(table, key) ==
    IF \E e \in table : e.key = key
    THEN [found |-> TRUE, value |-> (CHOOSE e \in table : e.key = key).value]
    ELSE NotFound

\* resolve.FindRuleWithOverride(c, imp, languageName)
FindRuleWithOverride(c, imp) == Lookup(c.overrides, imp)

\* ix.FindRulesByImportWithConfig(c, imp, languageName): the matching labels.
RECURSIVE FindRulesByImport(_, _)
FindRulesByImport(ix, imp) ==
    IF ix = <<>> THEN <<>>
    ELSE (IF Head(ix).Imp = imp THEN <<Head(ix).Label>> ELSE <<>>)
            \o FindRulesByImport(Tail(ix), imp)

\* FindResult.IsSelfImport(from): no rule embeds another (Embeds returns none).
IsSelfImport(match, f) == LabelEqual(f, match)

GetNamedPackage(c, imp) == Lookup(c.named, imp)

GetImportableFile(c, imp) == Lookup(c.files, imp)

GetNpmPackage(c, name) ==
    IF name \in c.npm THEN [found |-> TRUE, value |-> name] ELSE NotFound

\* targetListFromResults
RECURSIVE LabelStrings(_)
LabelStrings(results) ==
    IF results = <<>> THEN <<>>
    ELSE <<LabelString(Head(results))>> \o LabelStrings(Tail(results))

targetListFromResults(results) == Join(LabelStrings(results), <<",", " ">>)

-----------------------------------------------------------------------------
(* ResolveModuleDeps: one iteration of the loop over the import statements *)

Outcome(rule, adds, logs, fatal) ==
    [rule |-> rule, adds |-> adds, logs |-> logs, fatal |-> fatal]

LogLine(kind, mod, rule, text) ==
    [kind |-> kind, target |-> LabelString(from), src |-> mod.SourcePath,
     path |-> mod.Path, rule |-> rule, text |-> text]

\* The "Explaining dependency" line, written when dep is the explain target.
Explain(mod, rule, dep) ==
    IF EXPLAIN_DEPENDENCY = dep THEN {LogLine("explain", mod, rule, dep)} ELSE {}

\* Lines 140-155.
OverrideBranch(mod, override) ==
    LET o1 == IF override.Repo = <<>> THEN [override EXCEPT !.Repo = from.Repo]
              ELSE override
        o2 == IF o1.Repo = from.Repo THEN [o1 EXCEPT !.Repo = <<>>] ELSE o1
        dep == LabelString(o2)
    IN  IF ~LabelEqual(o1, from)
        THEN Outcome("override", <<[rule |-> "override", dep |-> dep]>>,
                     Explain(mod, "override", dep), FALSE)
        ELSE Outcome("override", <<>>, {}, FALSE)

\* FilterMatches without the self-import test.
FilterMatches_KeepSelf(matches) == matches

\* Lines 157-163: the matches that are not the requesting target.
RECURSIVE FilterMatches(_)
FilterMatches(matches) ==
    IF matches = <<>> THEN <<>>
    ELSE (IF ~IsSelfImport(Head(matches), from) THEN <<Head(matches)>> ELSE <<>>)
            \o FilterMatches(Tail(matches))

\* Lines 157-184.
IndexBranch(mod, matches) ==
    LET filteredMatches == FilterMatches(matches) IN
    IF Len(filteredMatches) = 1
    THEN LET dep == LabelString(LabelRel(filteredMatches[1], from.Repo, from.Pkg))
         IN  Outcome("index", <<[rule |-> "index", dep |-> dep]>>,
                     Explain(mod, "index", dep), FALSE)
    ELSE IF Len(filteredMatches) > 1
    THEN Outcome("index", <<>>,
                 {LogLine("ambiguous", mod, "index",
                          targetListFromResults(filteredMatches))}, TRUE)
    ELSE Outcome("index", <<>>, {}, FALSE)

\* Lines 186-192 (rule "named") and 194-200 (rule "file").
RegistryBranch(mod, rule, pkg) ==
    Outcome(rule, <<[rule |-> rule, dep |-> pkg]>>, Explain(mod, rule, pkg), FALSE)

\* NpmBranch without the @types sibling.
NpmBranch_WithoutTypes(mod, pkg) ==
    Outcome("npm", <<[rule |-> "npm", dep |-> pkg]>>, Explain(mod, "npm", pkg), FALSE)

\* Lines 202-213.
NpmBranch(mod, pkg) ==
    LET typePkg == GetNpmPackage(cfg, TypesPrefix \o mod.Path) IN
    Outcome("npm",
            <<[rule |-> "npm", dep |-> pkg]>>
                \o (IF typePkg.found
                    THEN <<[rule |-> "npm-types", dep |-> typePkg.value]>> ELSE <<>>),
            Explain(mod, "npm", pkg), FALSE)

\* Lines 215-221.
TypesBranch(mod, typePkg) ==
    Outcome("types", <<[rule |-> "types", dep |-> typePkg]>>,
            Explain(mod, "types", typePkg), FALSE)

\* Lines 223-226.
NodeBranch(mod) ==
    LET typePkg == GetNpmPackage(cfg, TypesNode) IN
    Outcome("node",
            IF typePkg.found THEN <<[rule |-> "node", dep |-> typePkg.value]>> ELSE <<>>,
            {}, FALSE)

\* UnresolvedBranch that logs the error without setting the fatal flag.
UnresolvedBranch_NotFatal(mod) ==
    Outcome("unresolved", <<>>, {LogLine("unresolved", mod, "unresolved", mod.Path)}, FALSE)

\* Lines 228-235.
UnresolvedBranch(mod) ==
    Outcome("unresolved", <<>>, {LogLine("unresolved", mod, "unresolved", mod.Path)}, TRUE)

\* ResolveImport with the index consulted before the override directives.
ResolveImport_IndexFirst(mod) ==
    LET imp      == mod.Path
        override == FindRuleWithOverride(cfg, imp)
        matches  == FindRulesByImport(index, imp)
        named    == GetNamedPackage(cfg, imp)
        file     == GetImportableFile(cfg, imp)
        npm      == GetNpmPackage(cfg, imp)
        types    == GetNpmPackage(cfg, TypesPrefix \o imp)
    IN  IF Len(matches) > 0 THEN IndexBranch(mod, matches)
        ELSE IF override.found THEN OverrideBranch(mod, override.value)
        ELSE IF named.found THEN RegistryBranch(mod, "named", named.value)
        ELSE IF file.found THEN RegistryBranch(mod, "file", file.value)
        ELSE IF npm.found THEN NpmBranch(mod, npm.value)
        ELSE IF types.found THEN TypesBranch(mod, types.value)
        ELSE IF cfg.env = "node" /\ isNodeImport(imp) THEN NodeBranch(mod)
        ELSE IF cfg.validate THEN UnresolvedBranch(mod)
        ELSE Outcome("unresolved", <<>>, {}, FALSE)

\* Lines 131-236: the else-if chain for one import statement.
ResolveImport(mod) ==
    LET imp      == mod.Path
        override == FindRuleWithOverride(cfg, imp)
        matches  == FindRulesByImport(index, imp)
        named    == GetNamedPackage(cfg, imp)
        file     == GetImportableFile(cfg, imp)
        npm      == GetNpmPackage(cfg, imp)
        types    == GetNpmPackage(cfg, TypesPrefix \o imp)
    IN  IF override.found THEN OverrideBranch(mod, override.value)
        ELSE IF Len(matches) > 0 THEN IndexBranch(mod, matches)
        ELSE IF named.found THEN RegistryBranch(mod, "named", named.value)
        ELSE IF file.found THEN RegistryBranch(mod, "file", file.value)
        ELSE IF npm.found THEN NpmBranch(mod, npm.value)
        ELSE IF types.found THEN TypesBranch(mod, types.value)
        ELSE IF cfg.env = "node" /\ isNodeImport(imp) THEN NodeBranch(mod)
        ELSE IF cfg.validate THEN UnresolvedBranch(mod)
        ELSE Outcome("unresolved", <<>>, {}, FALSE)

-----------------------------------------------------------------------------
(* The workspaces, configurations and import statements explored *)

RepoName == <<>>

Dir_a     == <<"a">>
Dir_admin == <<"a", "d", "m", "i", "n">>
File_b     == <<"b", ".", "t", "s">>
File_index == <<"i", "n", "d", "e", "x", ".", "t", "s">>

Rule(pkg, name, srcs) == [Pkg |-> pkg, Name |-> name, srcs |-> srcs]

RuleLib(srcs) == Rule(Dir_a, <<"l", "i", "b">>, srcs)
RuleA(srcs)   == Rule(Dir_a, <<"a">>, srcs)
RuleY(srcs)   == Rule(Dir_a, <<"y">>, srcs)
RuleUi        == Rule(Dir_admin, <<"u", "i">>, <<File_index>>)

RuleLabel(r) == Label(RepoName, r.Pkg, r.Name)

Workspaces ==
    { [rules |-> <<RuleLib(<<File_b, File_index>>), RuleA(<<File_b>>), RuleUi>>,
       baseDir |-> Dir_a],
      [rules |-> <<RuleLib(<<File_b, File_index>>), RuleA(<<>>), RuleUi>>,
       baseDir |-> <<".", ".">>],
      [rules |-> <<RuleLib(<<File_b>>), RuleA(<<File_b>>), RuleY(<<File_b>>), RuleUi>>,
       baseDir |-> <<".">>] }

Path_ab   == <<"a", "/", "b">>
Path_abts == <<"a", "/", "b", ".", "t", "s">>
Path_foo  == <<"f", "o", "o">>
Path_fs   == <<"f", "s">>

ImportPaths == {Path_ab, Path_abts, Path_foo, Path_fs}

ImportStatement(path) == [Path |-> path, SourcePath |-> <<"m", ".", "t", "s">>]

\* The import statement lists: distinct statements, in any iteration order.
ModuleLists ==
    UNION { { [k \in 1..n |-> ImportStatement(f[k])] :
                f \in { g \in [1..n -> ImportPaths] :
                          \A i, j \in 1..n : i # j => g[i] # g[j] } } :
            n \in 0..MaxImports }

Str_lib == <<"/", "/", "a", ":", "l", "i", "b">>
Str_ui  == <<"/", "/", "a", "d", "m", "i", "n", ":", "u", "i">>

OverrideTables ==
    { {},
      { [key |-> Path_ab, value |-> Label(<<>>, Dir_a, <<"l", "i", "b">>)],
        [key |-> Path_foo, value |-> Label(<<"e", "x", "t">>, <<"p">>, <<"q">>)] } }

\* The named-package and importable-file registries.
Registries ==
    { [named |-> {}, files |-> {}],
      [named |-> {}, files |-> { [key |-> Path_foo, value |-> Str_ui] }],
      [named |-> { [key |-> Path_foo, value |-> Str_lib],
                   [key |-> Path_ab, value |-> Str_lib] },
       files |-> { [key |-> Path_foo, value |-> Str_ui] }] }

NpmRegistries ==
    { {TypesPrefix \o Path_foo},
      {Path_foo, TypesPrefix \o Path_foo},
      {Path_foo, TypesNode},
      {TypesPrefix \o Path_fs, TypesNode} }

\* Environment type and validation flag of the package.
Environments ==
    { [env |-> "node", validate |-> TRUE],
      [env |-> "browser", validate |-> FALSE] }

ExplainTargets == { <<>>, TypesPrefix \o Path_foo, Str_lib }

Str_tsconfig == <<"/", "/", ":", "t", "s", "c", "o", "n", "f", "i", "g">>

\* The rule's attributes before Resolve, with the package's tsconfig rule.
RuleStates ==
    { [attrs |-> [hasDeps |-> FALSE, deps |-> <<>>, tsconfig |-> <<>>],
       tsconfig |-> Str_tsconfig],
      [attrs |-> [hasDeps |-> TRUE, deps |-> << <<"/", "/", "o", "l", "d">> >>,
                  tsconfig |-> <<>>],
       tsconfig |-> <<>>] }

NoLabel == Label(<<>>, <<>>, <<>>)

-----------------------------------------------------------------------------
(* The state machine *)

Init ==
    \E w \in Workspaces, o \in OverrideTables, g \in Registries, p \in NpmRegistries,
       e \in Environments, x \in ExplainTargets, r \in RuleStates :
        /\ rules = w.rules
        /\ cfg = [BaseDir |-> w.baseDir, overrides |-> o, named |-> g.named,
                  files |-> g.files, npm |-> p, env |-> e.env,
                  validate |-> e.validate, tsconfig |-> r.tsconfig]
        /\ EXPLAIN_DEPENDENCY = x
        /\ attrs = r.attrs
        /\ index = <<>>
        /\ provided = <<>>
        /\ nIndexed = 0
        /\ pc = "index"
        /\ from = NoLabel
        /\ modules = <<>>
        /\ it = 0
        /\ deps = <<>>
        /\ added = {}
        /\ hasFatalError = FALSE
        /\ logged = {}
        /\ exitStatus = -1

\* The index entries of one rule: each provided spec once, in order.
RECURSIVE IndexEntries(_, _, _)
IndexEntries(label, specs, seen) ==
    IF specs = <<>> THEN <<>>
    ELSE IF Head(specs) \in seen THEN IndexEntries(label, Tail(specs), seen)
    ELSE <<[Imp |-> Head(specs), Label |-> label]>>
            \o IndexEntries(label, Tail(specs), seen \cup {Head(specs)})

\* The host indexes the next rule: it calls Imports and records what it provides.
IndexRule ==
    /\ pc = "index"
    /\ nIndexed < Len(rules)
    /\ LET r == rules[nIndexed + 1]
           specs == Imports(cfg, r)
       IN  /\ provided' = Append(provided, specs)
           /\ index' = index \o IndexEntries(RuleLabel(r), specs, {})
    /\ nIndexed' = nIndexed + 1
    /\ pc' = IF nIndexed + 1 = Len(rules) THEN "idle" ELSE "index"
    /\ UNCHANGED <<rules, cfg, EXPLAIN_DEPENDENCY, from, modules, it, deps, added,
                   hasFatalError, logged, attrs, exitStatus>>

\* Resolve is called for one rule; ResolveModuleDeps starts (lines 100-129).
ResolveCall ==
    /\ pc = "idle"
    /\ \E k \in 1..Len(rules), mods \in ModuleLists :
        /\ from' = RuleLabel(rules[k])
        /\ modules' = mods
    /\ it' = 0
    /\ deps' = <<>>
    /\ hasFatalError' = FALSE
    /\ pc' = "loop"
    /\ UNCHANGED <<rules, cfg, EXPLAIN_DEPENDENCY, index, provided, nIndexed, added,
                   logged, attrs, exitStatus>>

\* One iteration of the loop of ResolveModuleDeps (lines 130-237).
ResolveNext ==
    /\ pc = "loop"
    /\ it < Len(modules)
    /\ LET out == ResolveImport(modules[it + 1]) IN
        /\ deps' = TreeAddAll(deps, out.adds)
        /\ added' = added \cup { [i |-> it + 1, rule |-> out.adds[k].rule,
                                  dep |-> out.adds[k].dep] : k \in 1..Len(out.adds) }
        /\ logged' = logged \cup out.logs
        /\ hasFatalError' = (hasFatalError \/ out.fatal)
    /\ it' = it + 1
    /\ UNCHANGED <<rules, cfg, EXPLAIN_DEPENDENCY, index, provided, nIndexed, pc, from,
                   modules, attrs, exitStatus>>

\* ExitFatal taken as soon as the flag is set, inside the loop.
ExitFatal_InsideLoop ==
    /\ pc = "loop"
    /\ hasFatalError
    /\ exitStatus' = 1
    /\ pc' = "exited"
    /\ UNCHANGED <<rules, cfg, EXPLAIN_DEPENDENCY, index, provided, nIndexed, from,
                   modules, it, deps, added, hasFatalError, logged, attrs>>

\* After the loop, with the fatal flag set: os.Exit(1) (lines 239-241).
ExitFatal ==
    /\ pc = "loop"
    /\ it = Len(modules)
    /\ hasFatalError
    /\ exitStatus' = 1
    /\ pc' = "exited"
    /\ UNCHANGED <<rules, cfg, EXPLAIN_DEPENDENCY, index, provided, nIndexed, from,
                   modules, it, deps, added, hasFatalError, logged, attrs>>

\* After the loop, without a fatal error: ResolveModuleDeps returns deps and
\* Resolve sets the attributes (lines 243, 105-114).
ResolveReturn ==
    /\ pc = "loop"
    /\ it = Len(modules)
    /\ ~hasFatalError
    /\ attrs' = [hasDeps  |-> IF deps # <<>> THEN TRUE ELSE attrs.hasDeps,
                 deps     |-> IF deps # <<>> THEN convertDependencySetToExpr(deps)
                              ELSE attrs.deps,
                 tsconfig |-> IF cfg.tsconfig # <<>> THEN cfg.tsconfig
                              ELSE attrs.tsconfig]
    /\ pc' = "returned"
    /\ UNCHANGED <<rules, cfg, EXPLAIN_DEPENDENCY, index, provided, nIndexed, from,
                   modules, it, deps, added, hasFatalError, logged, exitStatus>>

\* The run ends without any fatal error: exit status 0.
HostExit ==
    /\ pc = "returned"
    /\ exitStatus' = 0
    /\ pc' = "done"
    /\ UNCHANGED <<rules, cfg, EXPLAIN_DEPENDENCY, index, provided, nIndexed, from,
                   modules, it, deps, added, hasFatalError, logged, attrs>>

Next ==
    \/ IndexRule
    \/ ResolveCall
    \/ ResolveNext
    \/ ExitFatal
    \/ ResolveReturn
    \/ HostExit

Spec == Init /\ [][Next]_vars

-----------------------------------------------------------------------------
(* Vocabulary of the properties *)

\* Import statement i has been evaluated by the loop.
Processed(i) == pc \in {"loop", "returned", "exited", "done"} /\ i \in 1..it

\* Resolve has ended for the target, one way or the other.
Finished == pc \in {"returned", "exited", "done"}

PathOf(i) == modules[i].Path

AddsOf(i) == { a \in added : a.i = i }

DepsOf(i) == { a.dep : a \in AddsOf(i) }

DepSet == { deps[k] : k \in 1..Len(deps) }

ErrorsOf(i) == { l \in logged : l.path = PathOf(i) /\ l.kind \in {"ambiguous", "unresolved"} }

HasOverride(p) == \E e \in cfg.overrides : e.key = p

OverrideOf(p) == (CHOOSE e \in cfg.overrides : e.key = p).value

\* The labels the index holds for import path p, and those other than the requester.
IndexLabels(p) == { index[k].Label : k \in { j \in 1..Len(index) : index[j].Imp = p } }

Candidates(p) == { l \in IndexLabels(p) : l # from }

IsNamed(p) == \E e \in cfg.named : e.key = p

IsFile(p) == \E e \in cfg.files : e.key = p

IsNpm(p) == p \in cfg.npm

HasTypes(p) == (TypesPrefix \o p) \in cfg.npm

IsNodeBuiltin(p) == cfg.env = "node" /\ p \in NodeBuiltins

RuleOrder == <<"override", "index", "named", "file", "npm", "types", "node", "unresolved">>

RuleMatches(rule, p) ==
    CASE rule = "override"   -> HasOverride(p)
      [] rule = "index"      -> IndexLabels(p) # {}
      [] rule = "named"      -> IsNamed(p)
      [] rule = "file"       -> IsFile(p)
      [] rule = "npm"        -> IsNpm(p)
      [] rule = "types"      -> HasTypes(p)
      [] rule = "node"       -> IsNodeBuiltin(p)
      [] rule = "unresolved" -> TRUE

\* The first rule, in priority order, that matches import path p.
FirstRule(p) ==
    LET matching == { k \in 1..Len(RuleOrder) : RuleMatches(RuleOrder[k], p) }
    IN  RuleOrder[CHOOSE k \in matching : \A j \in matching : k <= j]

\* No resolution rule matches import path p.
Unmatched(p) == FirstRule(p) = "unresolved"

\* The rendered label of an override, as a dependency of the requester.
OverrideString(p) ==
    LET o == OverrideOf(p)
        repo == IF o.Repo = <<>> THEN from.Repo ELSE o.Repo
    IN  LabelString([o EXCEPT !.Repo = IF repo = from.Repo THEN <<>> ELSE repo])

\* The dependency strings a rule may contribute for import path p.
RuleDeps(rule, p) ==
    CASE rule = "override"   -> {OverrideString(p)}
      [] rule = "index"      -> { LabelString(LabelRel(l, from.Repo, from.Pkg)) :
                                    l \in IndexLabels(p) }
      [] rule = "named"      -> { e.value : e \in { x \in cfg.named : x.key = p } }
      [] rule = "file"       -> { e.value : e \in { x \in cfg.files : x.key = p } }
      [] rule = "npm"        -> {p, TypesPrefix \o p}
      [] rule = "types"      -> {TypesPrefix \o p}
      [] rule = "node"       -> {TypesNode}
      [] rule = "unresolved" -> {}

\* The rule an addition is attributed to (the @types sibling belongs to rule npm).
RuleOfAdd(a) == IF a.rule = "npm-types" THEN "npm" ELSE a.rule

\* s occurs in text.
Contains(text, s) ==
    \E k \in 1..(Len(text) - Len(s) + 1) : SubSeq(text, k, k + Len(s) - 1) = s

\* The strings that name target f: relative, absolute, and as rendered.
SelfStrings(f) ==
    { <<":">> \o f.Name,
      <<"/", "/">> \o f.Pkg \o <<":">> \o f.Name,
      LabelString(f) }

StrictlyAscending(list) ==
    \A k \in 1..(Len(list) - 1) : StrLess(list[k], list[k + 1])

\* Import statement i raises a fatal condition: an ambiguity, or an unresolved
\* import under validation.
IsFatal(i) ==
    LET p == PathOf(i) IN
    \/ FirstRule(p) = "index" /\ Cardinality(Candidates(p)) > 1
    \/ Unmatched(p) /\ cfg.validate

-----------------------------------------------------------------------------
(* Properties *)

\* C1: every evaluated import statement is resolved by the first rule that
\* matches it, in the order override, index, named package, importable file,
\* npm package, @types only, Node built-in, unresolved: every dependency and
\* every log line it produced comes from that rule and no other, and when an
\* override and an index match both exist the only dependency added is the
\* override's label.
C1_FirstMatchingRuleResolves ==
    \A i \in 1..Len(modules) :
        Processed(i) =>
            LET p     == PathOf(i)
                first == FirstRule(p)
            IN  /\ \A a \in AddsOf(i) : RuleOfAdd(a) = first /\ a.dep \in RuleDeps(first, p)
                /\ \A l \in logged : l.path = p => l.rule = first
                /\ first \in {"named", "file", "types"} => DepsOf(i) = RuleDeps(first, p)
                /\ first = "npm" => p \in DepsOf(i)
                /\ HasOverride(p) /\ OverrideString(p) \notin SelfStrings(from)
                        => DepsOf(i) = {OverrideString(p)}
                /\ HasOverride(p) /\ IndexLabels(p) # {}
                        => DepsOf(i) \subseteq {OverrideString(p)}

\* C1 witness: an import with an override and another target providing it in the
\* index was resolved to the override's label, which is not the index's rendering.
C1_Witness ==
    \E i \in 1..Len(modules) :
        /\ Processed(i)
        /\ HasOverride(PathOf(i))
        /\ Candidates(PathOf(i)) # {}
        /\ DepsOf(i) = {OverrideString(PathOf(i))}
        /\ OverrideString(PathOf(i)) \notin RuleDeps("index", PathOf(i))

\* C2: the dependency set never holds a string that names the requesting
\* target itself, whichever rule resolved the import.
C2_NoSelfDependency ==
    pc \in {"loop", "returned", "exited", "done"} => DepSet \cap SelfStrings(from) = {}

\* C3: without an override, an import that two or more targets other than the
\* requester provide adds no dependency, logs an ambiguity error naming every
\* candidate, sets the fatal flag and makes the process end with status 1; an
\* import with exactly one such candidate adds that candidate's label rendered
\* relative to the requester, logs no error and leaves the fatal flag to the
\* other imports.
C3_AmbiguityIsFatal ==
    \A i \in 1..Len(modules) :
        Processed(i) /\ ~HasOverride(PathOf(i)) =>
            LET p == PathOf(i)
                c == Candidates(p)
            IN  /\ Cardinality(c) >= 2 =>
                    /\ AddsOf(i) = {}
                    /\ \E l \in logged :
                        /\ l.kind = "ambiguous" /\ l.path = p
                        /\ \A t \in c : Contains(l.text, LabelString(t))
                    /\ hasFatalError
                    /\ Finished => pc = "exited" /\ exitStatus = 1
                /\ Cardinality(c) = 1 =>
                    /\ DepsOf(i) = { LabelString(LabelRel(t, from.Repo, from.Pkg)) : t \in c }
                    /\ ErrorsOf(i) = {}
                    /\ hasFatalError => \E j \in 1..it : j # i /\ ErrorsOf(j) # {}

\* C3 witness: the process exited with status 1 after an import that, the
\* requester excluded, two targets provide.
C3_Witness ==
    \E i \in 1..Len(modules) :
        /\ Processed(i)
        /\ ~HasOverride(PathOf(i))
        /\ from \in IndexLabels(PathOf(i))
        /\ Cardinality(Candidates(PathOf(i))) >= 2
        /\ pc = "exited"

\* C4: a fatal condition does not stop the loop: the process ends or Resolve
\* returns only after the last import statement was evaluated, every import's
\* dependencies are in the set by then, and the process exits with status 1
\* exactly when some import raised a fatal condition; otherwise the accumulated
\* set is returned.
C4_FatalDeferredToEndOfLoop ==
    /\ exitStatus = 1 => pc = "exited"
    /\ Finished =>
        /\ it = Len(modules)
        /\ \A i \in 1..Len(modules) :
              \A k \in 1..Len(ResolveImport(modules[i]).adds) :
                  ResolveImport(modules[i]).adds[k].dep \in DepSet
        /\ (pc = "exited" /\ exitStatus = 1) <=> (\E i \in 1..Len(modules) : IsFatal(i))
        /\ pc # "exited" => DepSet = { a.dep : a \in added }

\* C4 witness: the first import was fatal, the second was still evaluated and
\* added a dependency, and then the process exited.
C4_Witness ==
    /\ pc = "exited"
    /\ Len(modules) >= 2
    /\ IsFatal(1)
    /\ AddsOf(2) # {}

C6_BothPackagesAlways ==
    \A i \in 1..Len(modules) :
        Processed(i) /\ IsNpm(PathOf(i)) /\ HasTypes(PathOf(i)) =>
            {PathOf(i), TypesPrefix \o PathOf(i)} \subseteq DepSet

\* C6 amended: when no override directive, index match, named package or
\* importable file matches the import, and its package and @types package are
\* both registered in the npm registry, the dependency set holds both strings.
C6_BothPackagesWhenNpmRuleApplies ==
    \A i \in 1..Len(modules) :
        Processed(i) /\ IsNpm(PathOf(i)) /\ HasTypes(PathOf(i))
                     /\ FirstRule(PathOf(i)) = "npm" =>
            /\ {PathOf(i), TypesPrefix \o PathOf(i)} \subseteq DepSet
            /\ pc \in {"returned", "done"} =>
                  \A d \in {PathOf(i), TypesPrefix \o PathOf(i)} :
                      \E k \in 1..Len(attrs.deps) : attrs.deps[k] = d

\* C6 witness: Resolve returned with both the package and its @types package
\* in the dependency set, for an import the npm rule resolved.
C6_Witness ==
    /\ pc = "returned"
    /\ \E i \in 1..Len(modules) :
        /\ IsNpm(PathOf(i)) /\ HasTypes(PathOf(i))
        /\ FirstRule(PathOf(i)) = "npm"
        /\ {PathOf(i), TypesPrefix \o PathOf(i)} \subseteq DepSet

\* C7: every addition of a dependency string equal to the explain target is
\* accompanied by an explain line naming the requesting target, the source
\* file, the import path and the rule that produced it, the @types sibling of
\* an npm package and the @types/node entry included.
C7_EveryAdditionExplained ==
    \A a \in added :
        a.dep = EXPLAIN_DEPENDENCY =>
            \E l \in logged :
                /\ l.kind = "explain"
                /\ l.target = LabelString(from)
                /\ l.src = modules[a.i].SourcePath
                /\ l.path = modules[a.i].Path
                /\ l.rule = RuleOfAdd(a)
                /\ l.text = a.dep

\* C8: for every index file among an indexed rule's sources, Imports registers
\* the extension-stripped path and the containing directory of the file,
\* whatever the directory's name.
C8_IndexFileProvidesDirectory ==
    \A k \in 1..nIndexed :
        \A n \in 1..Len(rules[k].srcs) :
            LET src == JoinClean(rules[k].Pkg, rules[k].srcs[n])
                specs == { provided[k][j] : j \in 1..Len(provided[k]) }
            IN  isIndexFile(src) =>
                    /\ stripImportExtensions(src) \in specs
                    /\ PathDir(src) \in specs

\* C9: every import specification Imports registers is extension-stripped, and
\* an import statement written with the source-file extension resolves to the
\* same dependencies as the one written without it.
C9_ExtensionStrippedBothSides ==
    /\ \A k \in 1..nIndexed :
          \A j \in 1..Len(provided[k]) : ~isSourceFileType(provided[k][j])
    /\ \A i, j \in 1..Len(modules) :
          Processed(i) /\ Processed(j)
                /\ PathOf(i) = stripImportExtensions(PathOf(j)) =>
              DepsOf(i) = DepsOf(j)

\* C10: when Resolve returns, an empty dependency set leaves the deps attribute
\* as it was, and a non-empty one is written as the list of its strings, each
\* once, in ascending order: the list is determined by the set of import
\* statements, not by the order in which they were evaluated.
C10_DepsWrittenSortedOnce ==
    [][pc = "loop" /\ pc' = "returned" =>
          IF deps = <<>>
          THEN attrs'.hasDeps = attrs.hasDeps /\ attrs'.deps = attrs.deps
          ELSE /\ attrs'.hasDeps
               /\ StrictlyAscending(attrs'.deps)
               /\ { attrs'.deps[k] : k \in 1..Len(attrs'.deps) }
                     = { a.dep : a \in added }
               /\ { attrs'.deps[k] : k \in 1..Len(attrs'.deps) }
                     = UNION { { ResolveImport(m).adds[k].dep :
                                    k \in 1..Len(ResolveImport(m).adds) } :
                               m \in { modules[i] : i \in 1..Len(modules) } }
    ]_vars

\* C10 witness: Resolve returned and wrote a list of several dependencies that
\* were added in descending order.
C10_Witness ==
    /\ pc = "returned"
    /\ attrs.hasDeps
    /\ attrs.deps = deps
    /\ \E a, b \in added : a.i < b.i /\ StrLess(b.dep, a.dep)

====
